---- MODULE Spec2Model ----
(***************************************************************************)
(* A model of app/src/streamlit_app.py: the Streamlit chat front-end of a  *)
(* Llama Stack agent.                                                      *)
(*                                                                         *)
(* Streamlit runs the script from its first line on every interaction.     *)
(* st.session_state lives as long as the browser session, the cache of     *)
(* st.cache_resource as long as the server process, every other name of    *)
(* the script as long as one run.  An on_change callback runs before the   *)
(* run its interaction starts.  An interaction that arrives while a run is *)
(* in progress stops that run at its next st.* call and starts a new one.  *)
(* Every call of the Llama Stack client may raise APIConnectionError.      *)
(*                                                                         *)
(* Text is a sequence of tokens (mostly characters); the tool glyph of     *)
(* lines 63, 138 and 140 is the token "U+1F6E0".                           *)
(***************************************************************************)
EXTENDS Integers, Sequences, FiniteSets, TLC

\* Bounds of the model.
MaxStream == 3
MaxTurnEvents == 1
MaxTurns == 2

VARIABLES
  TOOL_DEBUG,           \* line 13
  session_state,        \* st.session_state: keys "agent_session_id", "messages"
  cache_resource,       \* st.cache_resource's entry for create_agent: <<>> or <<agent>>
  widgets,              \* the values the sidebar widgets hold
  pending_prompt,       \* what was submitted to st.chat_input and not yet read: <<>> or <<text>>
  pc,                   \* the statement the running script executes next, "idle" when none runs
  connected,            \* lines 19, 22
  model_list,           \* line 23
  tool_groups_list,     \* line 27
  indicator,            \* lines 37-40: what the sidebar shows
  model,                \* line 43
  agent_type,           \* line 47
  toolgroup_selection,  \* line 54
  agent,                \* line 95
  prompt,               \* line 108
  turn_response,        \* line 115: the turn's event stream: "none", "open", "exhausted", "error"
  fragments,            \* what response_generator has yielded to st.write_stream
  response,             \* line 145
  exception,            \* the exception that ended the run, "" when none
  sidebar_shown,        \* the screen shows the sidebar widgets
  chat_shown,           \* the screen shows the chat input
  n_prompts,            \* the prompts submitted so far
  stream_seen,          \* the items response_generator has taken from turn_response
  sessions_since_clear, \* sessions created since session_state was last empty
  created_in_run        \* this run has created a session

vars == <<TOOL_DEBUG, session_state, cache_resource, widgets, pending_prompt, pc,
          connected, model_list, tool_groups_list, indicator, model, agent_type,
          toolgroup_selection, agent, prompt, turn_response, fragments, response,
          exception, sidebar_shown, chat_shown, n_prompts, stream_seen,
          sessions_since_clear, created_in_run>>

-----------------------------------------------------------------------------
\* Text

RECURSIVE Concat(_)
Concat(chunks) ==
  IF chunks = <<>> THEN <<>> ELSE Head(chunks) \o Concat(Tail(chunks))

Contains(text, part) ==
  \E i \in 0..(Len(text) - Len(part)) : SubSeq(text, i + 1, i + Len(part)) = part

StartsWith(text, prefix) ==
  Len(prefix) <= Len(text) /\ SubSeq(text, 1, Len(prefix)) = prefix

\* repr() of a str without characters that need an escape
PyRepr(s) == <<"'">> \o s \o <<"'">>

-----------------------------------------------------------------------------
\* The remote runtime

ServerModels ==
  << [identifier |-> "m0", api_model_type |-> "llm"],
     [identifier |-> "e0", api_model_type |-> "embedding"],
     [identifier |-> "m1", api_model_type |-> "llm"],
     [identifier |-> "m2", api_model_type |-> "llm"],
     [identifier |-> "m3", api_model_type |-> "llm"] >>

ServerToolGroups ==
  << [identifier |-> <<"builtin::", "rag">>],
     [identifier |-> <<"mcp::", "a">>] >>

IsLlm(m) == m.api_model_type = "llm"

ModelList(models) ==
  LET llm == SelectSeq(models, IsLlm)
  IN  [i \in 1..Len(llm) |-> llm[i].identifier]

IsMcp(g) == StartsWith(g.identifier, <<"mcp::">>)

ToolGroupsList(groups) ==
  LET mcp == SelectSeq(groups, IsMcp)
  IN  [i \in 1..Len(mcp) |-> mcp[i].identifier]

-----------------------------------------------------------------------------
\* Turn events

BlankEvent ==
  [ has_payload |-> FALSE, event_type |-> "", delta_has_text |-> FALSE,
    delta_text |-> <<>>, step_type |-> "", tool_name |-> <<>>,
    arguments_json |-> <<>>, content |-> <<>>, id |-> "" ]

Progress(text) ==
  [BlankEvent EXCEPT !.has_payload = TRUE, !.event_type = "step_progress",
                     !.delta_has_text = TRUE, !.delta_text = text, !.id = "progress"]

ProgressToolCall ==
  [BlankEvent EXCEPT !.has_payload = TRUE, !.event_type = "step_progress",
                     !.id = "tool_call_delta"]

Complete(step_type, tool_name, arguments_json, content) ==
  [BlankEvent EXCEPT !.has_payload = TRUE, !.event_type = "step_complete",
                     !.step_type = step_type, !.tool_name = tool_name,
                     !.arguments_json = arguments_json, !.content = content,
                     !.id = "complete"]

TurnComplete ==
  [BlankEvent EXCEPT !.has_payload = TRUE, !.event_type = "turn_complete",
                     !.id = "turn_complete"]

NoPayload(id) == [BlankEvent EXCEPT !.id = id]

JsonText(text) == <<"{", "\"text\"", ":", "\"">> \o text \o <<"\"", "}">>

Hel == <<"H", "e", "l">>
Lo == <<"l", "o">>

ToolGet ==
  Complete("tool_execution", <<"g", "e", "t">>, <<"{", "}">>, JsonText(<<"4", "2">>))

\* a tool response whose content is cut off: not JSON
ToolPut ==
  Complete("tool_execution", <<"p", "u", "t">>, <<"{", "\"k\"", ":", "1", "}">>,
           <<"{", "\"text\"", ":", "\"", "o", "k">>)

Events ==
  { Progress(Hel), Progress(Lo), ProgressToolCall, ToolGet, ToolPut,
    Complete("inference", <<>>, <<>>, <<>>), TurnComplete,
    NoPayload("err1"), NoPayload("err2") }

LifecycleEvents == { Progress(Hel), ToolPut }

Prompts == { <<"h", "i">> }

\* str() of a stream item: a pydantic model prints its fields
ReprEvent(e) == <<"TurnEvent(", e.id, ")">>
Str(r) == <<"event=">> \o ReprEvent(r.event)

\* json.loads(content)["text"] for the documents the tools send
JsonLoads(content) ==
  LET n == Len(content)
  IN  IF /\ n >= 6
         /\ SubSeq(content, 1, 4) = <<"{", "\"text\"", ":", "\"">>
         /\ SubSeq(content, n - 1, n) = <<"\"", "}">>
      THEN [raises |-> FALSE, text |-> SubSeq(content, 5, n - 2)]
      ELSE [raises |-> TRUE, text |-> <<>>]

ToolMarker == <<" ", "U+1F6E0", " ">>

ErrorPrefix == <<"Error occurred in the Llama Stack Cluster: ">>

\* line 137
ToolInfo(tool_name, tool_args, content_text) ==
  <<"{'tool_name': {">> \o PyRepr(tool_name) \o <<"}, 'arguments': {">>
    \o PyRepr(tool_args) \o <<"}, 'content': {">> \o PyRepr(content_text) \o <<"}}">>

\* lines 128-130: what a step_progress event yields
ProgressFragments(r) ==
  IF r.event.event_type = "step_progress" /\ r.event.delta_has_text
  THEN << r.event.delta_text >>
  ELSE <<>>

\* a marker that names the tool
CompleteFragmentsNamed(r, debug) ==
  IF r.event.event_type = "step_complete" /\ r.event.step_type = "tool_execution"
  THEN << ToolMarker \o r.event.tool_name >>
  ELSE <<>>

\* a marker for every completed step
CompleteFragmentsAnyStep(r, debug) ==
  IF r.event.event_type = "step_complete"
  THEN << ToolMarker >>
  ELSE <<>>

\* lines 131-140: what a step_complete event yields
CompleteFragments(r, debug) ==
  IF r.event.event_type = "step_complete" /\ r.event.step_type = "tool_execution"
  THEN IF debug
       THEN << ToolMarker
               \o ToolInfo(r.event.tool_name, r.event.arguments_json,
                           JsonLoads(r.event.content).text)
               \o <<" ", "\n", "\n">> >>
       ELSE << ToolMarker >>
  ELSE <<>>

\* the parse error is swallowed
CompleteRaisesNever(r, debug) == FALSE

\* line 134: json.loads raises before anything is yielded
CompleteRaises(r, debug) ==
  /\ r.event.event_type = "step_complete"
  /\ r.event.step_type = "tool_execution"
  /\ debug
  /\ JsonLoads(r.event.content).raises

\* an error text without the item
ErrorFragmentsPlain(r) == << ErrorPrefix >>

\* line 142: what an event without payload yields
ErrorFragments(r) == << ErrorPrefix \o Str(r) >>

\* lines 125-142: one iteration of the loop of response_generator: what it
\* yields for the item r, and whether it raises instead.
response_generator(r, debug) ==
  IF r.event.has_payload
  THEN [ raises |-> CompleteRaises(r, debug),
         yields |-> ProgressFragments(r) \o CompleteFragments(r, debug) ]
  ELSE [ raises |-> FALSE, yields |-> ErrorFragments(r) ]

\* the newest fragment replaces what was written
WrittenOverwrite(written, yields) == IF yields = <<>> THEN written ELSE yields

\* the newest fragment is written first
WrittenPrepend(written, yields) == yields \o written

\* line 145: st.write_stream keeps what the generator yields, in order
Written(written, yields) == written \o yields

-----------------------------------------------------------------------------
\* Widgets

SelectboxIndex == 3

\* st.selectbox(options, index): the option the widget holds; the default
\* index must be an index of the options unless there are none.
Selectbox(options, held) ==
  IF Len(options) = 0
  THEN [raises |-> FALSE, value |-> "None"]
  ELSE IF ~(SelectboxIndex < Len(options))
       THEN [raises |-> TRUE, value |-> "None"]
       ELSE [raises |-> FALSE, value |-> options[held + 1]]

AgentTypes == <<"Regular", "ReAct">>

\* st.pills(options, selection_mode="multi"): the held options, in the order of the options
Pills(options, held) ==
  LET IsHeld(o) == \E i \in 1..Len(held) : held[i] = o
  IN  SelectSeq(options, IsHeld)

DefaultWidgets ==
  [model |-> SelectboxIndex, agent_type |-> AgentTypes[1], tools |-> <<>>]

NoAgent == [class |-> "", model |-> "", tools |-> <<>>]

-----------------------------------------------------------------------------
\* The script

\* The positions a run reaches through an st.* call (lines 34, 42-54, 63-70,
\* 104-108, 110-111, 144-145), where Streamlit stops it when an interaction
\* is pending.
Interruptible == {"sidebar", "tools", "agent", "chat_input", "user_msg", "drain"}

AfterSidebar ==
  {"tools", "agent", "session", "history", "chat_input", "user_msg", "create_turn",
   "drain", "assistant_msg"}

AfterChatInput == {"user_msg", "create_turn", "drain", "assistant_msg"}

\* The names of one run, before the run binds them.
Unbound ==
  /\ connected = FALSE
  /\ model_list = <<>>
  /\ tool_groups_list = <<>>
  /\ indicator = "none"
  /\ model = ""
  /\ agent_type = ""
  /\ toolgroup_selection = <<>>
  /\ agent = NoAgent
  /\ prompt = <<>>
  /\ turn_response = "none"
  /\ fragments = <<>>
  /\ response = <<>>
  /\ exception = ""
  /\ stream_seen = <<>>
  /\ created_in_run = FALSE

InitWith(debug) ==
  /\ TOOL_DEBUG = debug
  /\ session_state = <<>>
  /\ cache_resource = <<>>
  /\ widgets = DefaultWidgets
  /\ pending_prompt = <<>>
  /\ pc = "models"
  /\ Unbound
  /\ sidebar_shown = FALSE
  /\ chat_shown = FALSE
  /\ n_prompts = 0
  /\ sessions_since_clear = 0

Init == InitWith(FALSE)

\* A new run of the script.
StartRun ==
  /\ pc' = "models"
  /\ connected' = FALSE
  /\ model_list' = <<>>
  /\ tool_groups_list' = <<>>
  /\ indicator' = "none"
  /\ model' = ""
  /\ agent_type' = ""
  /\ toolgroup_selection' = <<>>
  /\ agent' = NoAgent
  /\ prompt' = <<>>
  /\ turn_response' = "none"
  /\ fragments' = <<>>
  /\ response' = <<>>
  /\ exception' = ""
  /\ stream_seen' = <<>>
  /\ created_in_run' = FALSE

\* An exception nothing catches ends the run; Streamlit shows it in place of
\* what the run had not yet drawn.
Raise(e) ==
  /\ pc' = "idle"
  /\ exception' = e
  /\ sidebar_shown' = (pc \in AfterSidebar)
  /\ chat_shown' = (pc \in AfterChatInput)

\* lines 17-24
ListModels ==
  /\ pc = "models"
  /\ \E ok \in BOOLEAN :
       /\ connected' = ok
       /\ model_list' = ModelList(IF ok THEN ServerModels ELSE <<>>)
  /\ pc' = "toolgroups"
  /\ UNCHANGED <<TOOL_DEBUG, session_state, cache_resource, widgets, pending_prompt,
                 tool_groups_list, indicator, model, agent_type, toolgroup_selection,
                 agent, prompt, turn_response, fragments, response, exception,
                 sidebar_shown, chat_shown, n_prompts, stream_seen,
                 sessions_since_clear, created_in_run>>

\* lines 26-28
ListToolGroups ==
  /\ pc = "toolgroups"
  /\ \E ok \in BOOLEAN :
       IF ok
       THEN /\ tool_groups_list' = ToolGroupsList(ServerToolGroups)
            /\ pc' = "sidebar"
            /\ UNCHANGED <<exception, sidebar_shown, chat_shown>>
       ELSE /\ Raise("APIConnectionError")
            /\ UNCHANGED tool_groups_list
  /\ UNCHANGED <<TOOL_DEBUG, session_state, cache_resource, widgets, pending_prompt,
                 connected, model_list, indicator, model, agent_type,
                 toolgroup_selection, agent, prompt, turn_response, fragments,
                 response, n_prompts, stream_seen, sessions_since_clear, created_in_run>>

\* lines 34-54
Sidebar ==
  /\ pc = "sidebar"
  /\ indicator' = IF connected THEN "Connected" ELSE "No Connection"
  /\ LET box == Selectbox(model_list, widgets.model)
     IN  IF box.raises
         THEN /\ Raise("StreamlitAPIException")
              /\ UNCHANGED <<model, agent_type, toolgroup_selection>>
         ELSE /\ model' = box.value
              /\ agent_type' = widgets.agent_type
              /\ toolgroup_selection' = Pills(tool_groups_list, widgets.tools)
              /\ pc' = "tools"
              /\ sidebar_shown' = TRUE
              /\ UNCHANGED <<exception, chat_shown>>
  /\ UNCHANGED <<TOOL_DEBUG, session_state, cache_resource, widgets, pending_prompt,
                 connected, model_list, tool_groups_list, agent, prompt,
                 turn_response, fragments, response, n_prompts,
                 stream_seen, sessions_since_clear, created_in_run>>

\* lines 56-70
ListTools ==
  /\ pc = "tools"
  /\ \E ok \in BOOLEAN :
       IF ok \/ toolgroup_selection = <<>>
       THEN /\ pc' = "agent"
            /\ UNCHANGED <<exception, sidebar_shown, chat_shown>>
       ELSE Raise("APIConnectionError")
  /\ UNCHANGED <<TOOL_DEBUG, session_state, cache_resource, widgets, pending_prompt,
                 connected, model_list, tool_groups_list, indicator, model,
                 agent_type, toolgroup_selection, agent, prompt, turn_response,
                 fragments, response, n_prompts, stream_seen,
                 sessions_since_clear, created_in_run>>

\* lines 72-93: the body of create_agent
create_agent ==
  [ class |-> IF agent_type = "Regular" THEN "Agent" ELSE "ReActAgent",
    model |-> model,
    tools |-> toolgroup_selection ]

\* line 95: st.cache_resource runs the body when it holds no entry; the
\* runtime creates no agent without a model
CreateAgent ==
  /\ pc = "agent"
  /\ IF cache_resource # <<>>
     THEN /\ agent' = cache_resource[1]
          /\ pc' = "session"
          /\ UNCHANGED <<cache_resource, exception, sidebar_shown, chat_shown>>
     ELSE \E ok \in BOOLEAN :
            IF ok /\ model # "None"
            THEN /\ agent' = create_agent
                 /\ cache_resource' = << create_agent >>
                 /\ pc' = "session"
                 /\ UNCHANGED <<exception, sidebar_shown, chat_shown>>
            ELSE /\ Raise("APIConnectionError")
                 /\ UNCHANGED <<agent, cache_resource>>
  /\ UNCHANGED <<TOOL_DEBUG, session_state, widgets, pending_prompt, connected,
                 model_list, tool_groups_list, indicator, model, agent_type,
                 toolgroup_selection, prompt, turn_response, fragments, response,
                 n_prompts, stream_seen, sessions_since_clear, created_in_run>>

\* lines 97-99
CreateSession ==
  /\ pc = "session"
  /\ IF "agent_session_id" \notin DOMAIN session_state
     THEN \E ok \in BOOLEAN :
            IF ok
            THEN /\ sessions_since_clear' = sessions_since_clear + 1
                 /\ created_in_run' = TRUE
                 /\ session_state' =
                      ("agent_session_id" :> [created_by |-> agent])
                        @@ session_state
                 /\ pc' = "history"
                 /\ UNCHANGED <<exception, sidebar_shown, chat_shown>>
            ELSE /\ Raise("APIConnectionError")
                 /\ UNCHANGED <<sessions_since_clear, created_in_run, session_state>>
     ELSE /\ pc' = "history"
          /\ UNCHANGED <<sessions_since_clear, created_in_run, session_state,
                         exception, sidebar_shown, chat_shown>>
  /\ UNCHANGED <<TOOL_DEBUG, cache_resource, widgets, pending_prompt, connected,
                 model_list, tool_groups_list, indicator, model, agent_type,
                 toolgroup_selection, agent, prompt, turn_response, fragments,
                 response, n_prompts, stream_seen>>

Greeting == [role |-> "assistant", content |-> <<"How can I help you?">>]

\* the history is set to the greeting by every run
HistoryEveryRun ==
  /\ pc = "history"
  /\ session_state' =
       ("messages" :> << Greeting >>)
         @@ [k \in DOMAIN session_state \ {"messages"} |-> session_state[k]]
  /\ pc' = "chat_input"
  /\ UNCHANGED <<TOOL_DEBUG, cache_resource, widgets, pending_prompt, connected,
                 model_list, tool_groups_list, indicator, model, agent_type,
                 toolgroup_selection, agent, prompt, turn_response, fragments,
                 response, exception, sidebar_shown, chat_shown,
                 n_prompts, stream_seen, sessions_since_clear, created_in_run>>

\* lines 101-106
History ==
  /\ pc = "history"
  /\ session_state' =
       IF "messages" \notin DOMAIN session_state
       THEN ("messages" :> << Greeting >>) @@ session_state
       ELSE session_state
  /\ pc' = "chat_input"
  /\ UNCHANGED <<TOOL_DEBUG, cache_resource, widgets, pending_prompt, connected,
                 model_list, tool_groups_list, indicator, model, agent_type,
                 toolgroup_selection, agent, prompt, turn_response, fragments,
                 response, exception, sidebar_shown, chat_shown, n_prompts, stream_seen, sessions_since_clear, created_in_run>>

\* line 108
ChatInput ==
  /\ pc = "chat_input"
  /\ chat_shown' = TRUE
  /\ IF pending_prompt # <<>>
     THEN /\ prompt' = pending_prompt[1]
          /\ pc' = "user_msg"
     ELSE /\ pc' = "idle"
          /\ UNCHANGED prompt
  /\ pending_prompt' = <<>>
  /\ UNCHANGED <<TOOL_DEBUG, session_state, cache_resource, widgets, connected,
                 model_list, tool_groups_list, indicator, model, agent_type,
                 toolgroup_selection, agent, turn_response, fragments, response,
                 exception, sidebar_shown, n_prompts, stream_seen,
                 sessions_since_clear, created_in_run>>

\* lines 110-113
UserMessage ==
  /\ pc = "user_msg"
  /\ session_state' =
       [session_state EXCEPT !["messages"] = Append(@, [role |-> "user", content |-> prompt])]
  /\ pc' = "create_turn"
  /\ UNCHANGED <<TOOL_DEBUG, cache_resource, widgets, pending_prompt, connected,
                 model_list, tool_groups_list, indicator, model, agent_type,
                 toolgroup_selection, agent, prompt, turn_response, fragments,
                 response, exception, sidebar_shown, chat_shown, n_prompts, stream_seen, sessions_since_clear, created_in_run>>

\* lines 115-122
CreateTurn ==
  /\ pc = "create_turn"
  /\ \E ok \in BOOLEAN :
       IF ok
       THEN /\ turn_response' = "open"
            /\ pc' = "drain"
            /\ UNCHANGED <<exception, sidebar_shown, chat_shown>>
       ELSE /\ Raise("APIConnectionError")
            /\ UNCHANGED turn_response
  /\ UNCHANGED <<TOOL_DEBUG, session_state, cache_resource, widgets, pending_prompt,
                 connected, model_list, tool_groups_list, indicator, model,
                 agent_type, toolgroup_selection, agent, prompt, fragments, response,
                 n_prompts, stream_seen, sessions_since_clear, created_in_run>>

\* lines 124-145: st.write_stream takes the next fragment of
\* response_generator, which takes the next item of turn_response
WriteStreamNext(events, max_len) ==
  /\ pc = "drain"
  /\ Len(stream_seen) < max_len
  /\ \E e \in events :
       LET r == [event |-> e]
           out == response_generator(r, TOOL_DEBUG)
       IN  /\ stream_seen' = Append(stream_seen, r)
           /\ IF out.raises
              THEN /\ Raise("JSONDecodeError")
                   /\ turn_response' = "error"
                   /\ UNCHANGED fragments
              ELSE /\ fragments' = Written(fragments, out.yields)
                   /\ UNCHANGED <<pc, turn_response, exception, sidebar_shown, chat_shown>>
  /\ UNCHANGED <<TOOL_DEBUG, session_state, cache_resource, widgets, pending_prompt,
                 connected, model_list, tool_groups_list, indicator, model,
                 agent_type, toolgroup_selection, agent, prompt, response,
                 n_prompts, sessions_since_clear, created_in_run>>

\* line 145: turn_response is exhausted, st.write_stream returns what it wrote
WriteStreamEnd ==
  /\ pc = "drain"
  /\ turn_response' = "exhausted"
  /\ response' = Concat(fragments)
  /\ pc' = "assistant_msg"
  /\ UNCHANGED <<TOOL_DEBUG, session_state, cache_resource, widgets, pending_prompt,
                 connected, model_list, tool_groups_list, indicator, model,
                 agent_type, toolgroup_selection, agent, prompt, fragments,
                 exception, sidebar_shown, chat_shown, n_prompts,
                 stream_seen, sessions_since_clear, created_in_run>>

\* line 147
AssistantMessage ==
  /\ pc = "assistant_msg"
  /\ session_state' =
       [session_state EXCEPT
          !["messages"] = Append(@, [role |-> "assistant", content |-> response])]
  /\ pc' = "idle"
  /\ UNCHANGED <<TOOL_DEBUG, cache_resource, widgets, pending_prompt, connected,
                 model_list, tool_groups_list, indicator, model, agent_type,
                 toolgroup_selection, agent, prompt, turn_response, fragments,
                 response, exception, sidebar_shown, chat_shown, n_prompts, stream_seen, sessions_since_clear, created_in_run>>

-----------------------------------------------------------------------------
\* The user

\* An interaction is taken between runs, or by a run at an st.* call.
Accepting == pc = "idle" \/ pc \in Interruptible

\* The sidebar the user acts on is the one of the latest run.
SidebarUsable == sidebar_shown /\ pc # "sidebar"

\* lines 30-32
reset_agent ==
  /\ session_state' = <<>>
  /\ cache_resource' = <<>>

\* line 43: another model is selected
SelectModel(i) ==
  /\ Accepting
  /\ SidebarUsable
  /\ i \in 0..(Len(model_list) - 1)
  /\ i # widgets.model
  /\ widgets' = [widgets EXCEPT !.model = i]
  /\ reset_agent
  /\ sessions_since_clear' = 0
  /\ StartRun
  /\ UNCHANGED <<TOOL_DEBUG, pending_prompt, sidebar_shown, chat_shown, n_prompts>>

\* lines 47-51: the other agent type is selected
SelectAgentType(t) ==
  /\ Accepting
  /\ SidebarUsable
  /\ t \in 1..Len(AgentTypes)
  /\ AgentTypes[t] # widgets.agent_type
  /\ widgets' = [widgets EXCEPT !.agent_type = AgentTypes[t]]
  /\ reset_agent
  /\ sessions_since_clear' = 0
  /\ StartRun
  /\ UNCHANGED <<TOOL_DEBUG, pending_prompt, sidebar_shown, chat_shown, n_prompts>>

\* line 54: a tool group is selected or deselected
SelectToolGroup(g) ==
  /\ Accepting
  /\ SidebarUsable
  /\ g \in 1..Len(tool_groups_list)
  /\ LET id == tool_groups_list[g]
         IsOther(o) == o # id
     IN  widgets' =
           [widgets EXCEPT !.tools =
              IF \E k \in 1..Len(@) : @[k] = id
              THEN SelectSeq(@, IsOther)
              ELSE Append(@, id)]
  /\ reset_agent
  /\ sessions_since_clear' = 0
  /\ StartRun
  /\ UNCHANGED <<TOOL_DEBUG, pending_prompt, sidebar_shown, chat_shown, n_prompts>>

\* line 70: text is entered in the field no code reads; the script runs again
EnterServerName ==
  /\ Accepting
  /\ SidebarUsable
  /\ StartRun
  /\ UNCHANGED <<TOOL_DEBUG, session_state, cache_resource, widgets, pending_prompt,
                 sidebar_shown, chat_shown, n_prompts,
                 sessions_since_clear>>

\* line 108: a prompt is submitted
SubmitPrompt(p, max_turns) ==
  /\ Accepting
  /\ chat_shown
  /\ n_prompts < max_turns
  /\ n_prompts' = n_prompts + 1
  /\ pending_prompt' = << p >>
  /\ StartRun
  /\ UNCHANGED <<TOOL_DEBUG, session_state, cache_resource, widgets, sidebar_shown,
                 chat_shown, sessions_since_clear>>

\* The page is loaded again: a new browser session, with its own
\* st.session_state and widgets; st.cache_resource is the server's.
LoadPage ==
  /\ Accepting
  /\ session_state' = <<>>
  /\ widgets' = DefaultWidgets
  /\ pending_prompt' = <<>>
  /\ sidebar_shown' = FALSE
  /\ chat_shown' = FALSE
  /\ sessions_since_clear' = 0
  /\ StartRun
  /\ UNCHANGED <<TOOL_DEBUG, cache_resource, n_prompts>>

-----------------------------------------------------------------------------
\* Specifications

Script(events, max_len) ==
  \/ ListModels
  \/ ListToolGroups
  \/ Sidebar
  \/ ListTools
  \/ CreateAgent
  \/ CreateSession
  \/ History
  \/ ChatInput
  \/ UserMessage
  \/ CreateTurn
  \/ WriteStreamNext(events, max_len)
  \/ WriteStreamEnd
  \/ AssistantMessage

\* The application as it is built (TOOL_DEBUG = False), over several turns
\* and configurations.
Next ==
  \/ Script(LifecycleEvents, MaxTurnEvents)
  \/ \E i \in 0..(Len(ServerModels) - 1) : SelectModel(i)
  \/ \E t \in 1..Len(AgentTypes) : SelectAgentType(t)
  \/ \E g \in 1..Len(ServerToolGroups) : SelectToolGroup(g)
  \/ EnterServerName
  \/ \E p \in Prompts : SubmitPrompt(p, MaxTurns)
  \/ LoadPage

Spec == Init /\ [][Next]_vars

\* The first turn of the first session, over every stream of events.
FirstPrompt(p) == n_prompts = 0 /\ SubmitPrompt(p, MaxTurns)

NextReducer ==
  \/ Script(Events, MaxStream)
  \/ \E p \in Prompts : FirstPrompt(p)

SpecReducer == Init /\ [][NextReducer]_vars

\* The same with TOOL_DEBUG = True.
InitVerbose == InitWith(TRUE)

SpecVerbose == InitVerbose /\ [][NextReducer]_vars

-----------------------------------------------------------------------------
\* Properties of the reduction of one turn's event stream

Messages == session_state["messages"]

LastMessage == Messages[Len(Messages)]

\* The run has drained the stream and appended the assistant message.
TurnDone == pc = "idle" /\ turn_response = "exhausted"

\* response_generator has just taken an item from the stream.
Taken == pc = "drain" /\ stream_seen' # stream_seen

TakenItem == stream_seen'[Len(stream_seen')]

IsTextProgress(r) ==
  /\ r.event.has_payload
  /\ r.event.event_type = "step_progress"
  /\ r.event.delta_has_text

IsToolExecution(r) ==
  /\ r.event.has_payload
  /\ r.event.event_type = "step_complete"
  /\ r.event.step_type = "tool_execution"

RECURSIVE DeltaTexts(_)
DeltaTexts(items) ==
  IF items = <<>> THEN <<>> ELSE Head(items).event.delta_text \o DeltaTexts(Tail(items))

\* C1: when every event of the stream is a step_progress whose delta
\* carries text, the assistant message of the drained turn is the
\* concatenation of the delta texts in arrival order.
C1_TextOnlyStream ==
  (TurnDone /\ \A i \in 1..Len(stream_seen) : IsTextProgress(stream_seen[i]))
    => LastMessage = [role |-> "assistant", content |-> DeltaTexts(stream_seen)]

C1_Witness ==
  /\ TurnDone
  /\ stream_seen = << [event |-> Progress(Hel)], [event |-> Progress(Lo)],
                      [event |-> Progress(Hel)] >>
  /\ LastMessage.content = <<"H", "e", "l", "l", "o", "H", "e", "l">>

\* C2: with TOOL_DEBUG off, a step_complete event of step type
\* tool_execution makes the reducer emit exactly one fragment, the tool
\* marker, whatever the tool name, arguments and tool response are.
C2_ToolMarker ==
  [][ (Taken /\ ~TOOL_DEBUG /\ IsToolExecution(TakenItem))
        => fragments' = Append(fragments, <<" ", "U+1F6E0", " ">>) ]_vars

C2_Witness ==
  /\ pc = "drain"
  /\ ~TOOL_DEBUG
  /\ stream_seen = << [event |-> ToolGet], [event |-> ToolPut] >>
  /\ Len(fragments) = 2

\* C3: an event without a payload makes the reducer emit one error
\* fragment containing the representation of the event, the reduction goes
\* on, and the events after it contribute their fragments.
C3_NoPayload ==
  [][ /\ (Taken /\ ~TakenItem.event.has_payload)
        => /\ Len(fragments') = Len(fragments) + 1
           /\ SubSeq(fragments', 1, Len(fragments)) = fragments
           /\ StartsWith(fragments'[Len(fragments')], ErrorPrefix)
           /\ Contains(fragments'[Len(fragments')], ReprEvent(TakenItem.event))
           /\ pc' = "drain"
           /\ turn_response' = "open"
           /\ exception' = ""
      /\ (Taken /\ (\E i \in 1..Len(stream_seen) : ~stream_seen[i].event.has_payload))
        => /\ IsTextProgress(TakenItem)
                => fragments' = Append(fragments, TakenItem.event.delta_text)
           /\ IsToolExecution(TakenItem) => fragments' = Append(fragments, ToolMarker)
    ]_vars

C3_Witness ==
  /\ TurnDone
  /\ stream_seen = << [event |-> NoPayload("err1")], [event |-> Progress(Lo)],
                      [event |-> NoPayload("err2")] >>
  /\ Len(fragments) = 3
  /\ Contains(LastMessage.content, <<"TurnEvent(", "err2", ")">>)

\* The fragment the design gives an event, TOOL_DEBUG off
DesignFragments(r) ==
  CASE ~r.event.has_payload -> << ErrorPrefix \o <<"event=", "TurnEvent(", r.event.id, ")">> >>
    [] IsTextProgress(r) -> << r.event.delta_text >>
    [] IsToolExecution(r) -> << <<" ", "U+1F6E0", " ">> >>
    [] OTHER -> <<>>

RECURSIVE DesignMessage(_)
DesignMessage(items) ==
  IF items = <<>>
  THEN <<>>
  ELSE Concat(DesignFragments(Head(items))) \o DesignMessage(Tail(items))

HelloTool == <<"H", "e", "l", "l", "o", " ", "U+1F6E0", " ">>

\* C6: with TOOL_DEBUG off, the assistant message holds, in arrival order of
\* the events, the fragment each event alone determines; the stream
\* progress("Hel"), progress("lo"), complete(tool_execution) gives "Hello",
\* the blank-framed tool glyph after it.
C6_ArrivalOrder ==
  /\ (turn_response \in {"open", "exhausted"} /\ ~TOOL_DEBUG)
        => Concat(fragments) = DesignMessage(stream_seen)
  /\ (TurnDone /\ ~TOOL_DEBUG)
        => LastMessage = [role |-> "assistant", content |-> DesignMessage(stream_seen)]
  /\ (/\ TurnDone
      /\ ~TOOL_DEBUG
      /\ Len(stream_seen) = 3
      /\ stream_seen[1].event = Progress(Hel)
      /\ stream_seen[2].event = Progress(Lo)
      /\ IsToolExecution(stream_seen[3]))
        => LastMessage.content = HelloTool

C6_Witness ==
  /\ TurnDone
  /\ ~TOOL_DEBUG
  /\ stream_seen = << [event |-> Progress(Hel)], [event |-> Progress(Lo)],
                      [event |-> ToolGet] >>
  /\ LastMessage.content = HelloTool

\* C9: an event with a payload that is neither a step_progress with a text
\* delta nor a step_complete of a tool_execution step emits no fragment,
\* and the reduction goes on.
C9_OtherEventsSkipped ==
  [][ (/\ Taken
       /\ TakenItem.event.has_payload
       /\ ~IsTextProgress(TakenItem)
       /\ ~IsToolExecution(TakenItem))
        => /\ fragments' = fragments
           /\ pc' = "drain"
           /\ turn_response' = "open"
           /\ exception' = ""
           /\ session_state' = session_state ]_vars

C9_Witness ==
  /\ TurnDone
  /\ stream_seen = << [event |-> ProgressToolCall],
                      [event |-> Complete("inference", <<>>, <<>>, <<>>)],
                      [event |-> TurnComplete] >>
  /\ fragments = <<>>
  /\ LastMessage = [role |-> "assistant", content |-> <<>>]

ToolTexts == { <<"4", "2">> }

\* C10: with TOOL_DEBUG on, a tool_execution step_complete event whose first
\* tool response holds a JSON document with a text emits one fragment with
\* the tool name, the arguments and that text; when the content is not JSON
\* the run ends there with the parse error, no later event is taken and no
\* assistant message is appended after the user message.
C10_Verbose ==
  [][ (Taken /\ TOOL_DEBUG /\ IsToolExecution(TakenItem))
        => IF \E t \in ToolTexts : TakenItem.event.content = JsonText(t)
           THEN /\ Len(fragments') = Len(fragments) + 1
                /\ SubSeq(fragments', 1, Len(fragments)) = fragments
                /\ LET f == fragments'[Len(fragments')]
                   IN  /\ f # ToolMarker
                       /\ Contains(f, TakenItem.event.tool_name)
                       /\ Contains(f, TakenItem.event.arguments_json)
                       /\ \E t \in ToolTexts :
                            /\ TakenItem.event.content = JsonText(t)
                            /\ Contains(f, t)
                /\ pc' = "drain"
           ELSE /\ pc' = "idle"
                /\ exception' = "JSONDecodeError"
                /\ fragments' = fragments
                /\ session_state' = session_state
                /\ LastMessage = [role |-> "user", content |-> prompt]
                /\ turn_response' = "error"
    ]_vars

C10_Witness ==
  /\ TOOL_DEBUG
  /\ exception = "JSONDecodeError"
  /\ stream_seen = << [event |-> ToolGet], [event |-> ToolPut] >>
  /\ Len(fragments) = 1
  /\ Len(Messages) = 2

-----------------------------------------------------------------------------
\* Properties of the sessions and the message history

HasSession == "agent_session_id" \in DOMAIN session_state

HasMessages == "messages" \in DOMAIN session_state

\* The run has read the widgets: model, agent_type and toolgroup_selection
\* are the selected triple.
TripleBound == indicator # "none"

\* C4: a change of the model, the agent type or the tool groups empties the
\* state and the next run creates one session for the new triple: a session
\* id that exists, in a run that has the model list, belongs to a session
\* created under the selected triple, and one session has been created
\* since the state was last empty.
C4_SessionOfSelectedTriple ==
  /\ (HasSession /\ TripleBound /\ connected)
        => /\ session_state["agent_session_id"].created_by.model = model
           /\ session_state["agent_session_id"].created_by.class =
                (IF agent_type = "Regular" THEN "Agent" ELSE "ReActAgent")
           /\ session_state["agent_session_id"].created_by.tools = toolgroup_selection
  /\ sessions_since_clear = (IF HasSession THEN 1 ELSE 0)

\* models.list() has failed in this run.
Disconnected == pc # "models" /\ ~connected

\* C5: when the connection fails at startup no exception ends the run, the
\* model list and the tool list are empty, the sidebar shows the
\* disconnected indicator and the run creates no session.
C5_DisconnectedStartup ==
  Disconnected
    => /\ exception = ""
       /\ model_list = <<>>
       /\ tool_groups_list = <<>>
       /\ (pc \in AfterSidebar \cup {"idle"}) => indicator = "No Connection"
       /\ ~created_in_run

\* C7: between two resets the history only grows, by the user message and
\* then the assistant message of a turn, the assistant message holding the
\* concatenated fragments of the drained stream; a reset leaves no message.
C7_AppendOnlyHistory ==
  [][ /\ (HasMessages /\ HasMessages')
        => \/ Messages' = Messages
           \/ /\ pc = "user_msg"
              /\ Messages' = Append(Messages, [role |-> "user", content |-> prompt])
           \/ /\ pc = "assistant_msg"
              /\ Messages' =
                   Append(Messages, [role |-> "assistant", content |-> Concat(fragments)])
      /\ (pc = "assistant_msg")
        => /\ turn_response = "exhausted"
           /\ LastMessage = [role |-> "user", content |-> prompt]
           /\ Len(Messages') = Len(Messages) + 1
           /\ pc' = "idle"
      /\ (pc \in {"create_turn", "drain"} /\ pc' \in {"drain", "assistant_msg"})
        => /\ Messages' = Messages
           /\ LastMessage = [role |-> "user", content |-> prompt]
      /\ (~HasMessages /\ HasMessages') => Messages' = << Greeting >>
      /\ (widgets' # widgets) => session_state' = <<>>
      /\ (HasMessages /\ ~HasMessages') => (session_state' = <<>> /\ pc' = "models")
    ]_vars

C7_Witness ==
  /\ pc = "idle"
  /\ turn_response = "exhausted"
  /\ widgets # DefaultWidgets
  /\ Len(Messages) = 5
  /\ Messages[2].role = "user"
  /\ Messages[3] = [role |-> "assistant", content |-> Hel]
  /\ Messages[4].role = "user"
  /\ Messages[5] = [role |-> "assistant", content |-> ToolMarker]

\* C8: a turn's stream is left only by its exhaustion or its first
\* unhandled error, and while it is open no input is accepted, no prompt is
\* taken and no message is appended.
C8_OneTurnAtATime ==
  [][ (turn_response = "open")
        => /\ turn_response' \in {"open", "exhausted", "error"}
           /\ pending_prompt' = pending_prompt
           /\ n_prompts' = n_prompts
           /\ session_state' = session_state ]_vars

====
